---- MODULE Spec2Model ----
(***************************************************************************)
(* Model of the tour back end: the proximity search of app/api/tours.py    *)
(* (nearby_tours), the tour metrics of app/services/tour_calculator.py and *)
(* the handlers that change a tour's stop list (update_tour, delete_site), *)
(* tour status and visibility, accounts and device tokens, the audio cache *)
(* of generate_audio, reset_password, ratings, and a paging client.        *)
(*                                                                         *)
(* Numbers are fixed point.  Tour coordinates are integer steps of a grid  *)
(* laid around latitude 0 / longitude 0; one step is 4 mm on the ground    *)
(* and calculate_distance returns millimetres, so that round(distance, 2)  *)
(* (rounding to the centimetre) is a real conversion.  Site coordinates    *)
(* are steps of 1788 m and haversine_distance returns metres.  An optional *)
(* value (a nullable column, an optional query parameter) is <<>> for None *)
(* and <<v>> for the value v.                                              *)
(***************************************************************************)
EXTENDS Integers, Sequences, FiniteSets, TLC

\* ---------------------------------------------------------------- bounds
MaxTours == 3
MaxCoord == 2
MaxOffset == 2
MaxCount == 2
MaxStops == 3
MaxSiteCoord == 2
MaxSites == 2
MaxDbTours == 2
MaxNarratedStops == 2
MaxWords == 131
MaxTextLen == 4
MaxTextStops == 2
MaxPoint == 2

\* tours of the status and visibility model
MaxStatusTours == 2

\* users and devices of the account model
MaxAuthUsers == 2
MaxDevices == 2

\* concurrent generate_audio calls
MaxCalls == 3

\* concurrent reset_password requests
MaxResetCalls == 3

\* rating feedback records ever submitted, and the tours they rate
MaxFeedback == 3
MaxRatedTours == 2

\* the page sizes a paging client asks for
MaxPageSize == 2

\* ------------------------------------------------------- optional values
None == <<>>

Some(v) == <<v>>

\* Python truthiness of an optional number: None and 0 / 0.0 are falsy.
TruthyNum(x) == x # None /\ x[1] # 0

\* Python truthiness of an optional string: None and "" are falsy.
TruthyStr(x) == x # None /\ x[1] # ""

\* mutant: the sign of the difference is kept
Abs_Signed(n) == n

Abs(n) == IF n < 0 THEN 0 - n ELSE n

\* floor of the square root of n, searched between lo and hi
RECURSIVE ISqrtBetween(_, _, _)
ISqrtBetween(n, lo, hi) ==
    IF lo >= hi THEN lo
    ELSE LET mid == (lo + hi + 1) \div 2
         IN  IF mid * mid <= n THEN ISqrtBetween(n, mid, hi)
             ELSE ISqrtBetween(n, lo, mid - 1)

ISqrt(n) == ISqrtBetween(n, 0, IF n < 46340 THEN n ELSE 46340)

\* ------------------------------------------------------------ state
VARIABLES
    all_tours,        \* nearby_tours: the rows Tour.query ... .all() returns, in row order
    resp,             \* nearby_tours: the request just served and its JSON response
    calc_tour_sites,  \* calculate_tour_metrics: the tour_sites collection of its argument
    calc_result,      \* calculate_tour_metrics: the tuple it returned
    sites,            \* table sites: site id -> None or Some(row)
    tour_sites,       \* table tour_sites: tour id -> its rows [site_id, display_order]
    tours,            \* table tours: tour id -> [distance_meters, duration_minutes]
    last_request,     \* the request served last and the tours whose stop list it changed
    haversine_call,   \* haversine_distance: the arguments of a call and the distance returned
    tour_table,       \* table tours: tour id -> None or Some([owner_id, name, status, published_at])
    tour_response,    \* tours API: the request just served, its status code and the tours it returned
    user_is_active,   \* table users: user id -> is_active
    access_tokens,    \* the users holding an access token that has not expired
    refresh_tokens,   \* the users holding a refresh token that has not expired
    device_registrations, \* table device_registrations: device id -> None or Some([is_active])
    device_tokens,    \* the devices holding a device token
    auth_response,    \* auth API: the request just served and its answer
    audio_cache,      \* table audio_cache: the rows [text_hash, audio_url, access_count]
    tts_calls,        \* generate_audio: call -> where it stands, what it loaded and what it returned
    reset_token,      \* table password_reset_tokens: None or Some([used, expired]) of the one token
    password_hash,    \* users.password_hash of the user the token belongs to
    reset_calls,      \* reset_password: request -> where it stands, what it sent and its status code
    feedback_rows,    \* table feedback: feedback id -> None or Some([tour_id, user_id, rating])
    feedback_seq,     \* the feedback id given out last
    rated_tours,      \* table tours: tour id -> [average_rating, rating_count]
    feedback_response, \* feedback API: the request just served and its status code
    pager             \* a client paging through nearby_tours: its query, the next offset, and what the pages returned so far

nearbyVars == <<all_tours, resp>>

calcVars == <<calc_tour_sites, calc_result>>

dbVars == <<sites, tour_sites, tours, last_request>>

statusVars == <<tour_table, tour_response>>

authVars == <<user_is_active, access_tokens, refresh_tokens, device_registrations, device_tokens, auth_response>>

ttsVars == <<audio_cache, tts_calls>>

resetVars == <<reset_token, password_hash, reset_calls>>

ratingVars == <<feedback_rows, feedback_seq, rated_tours, feedback_response>>

pagingVars == <<pager>>

\* the variables of the sections that follow the calculator and the stop lists
laterVars == <<statusVars, authVars, ttsVars, resetVars, ratingVars, pagingVars>>

\* the variables of the proximity search, the calculator and the stop lists
earlierVars == <<nearbyVars, calcVars, dbVars, haversine_call>>

outsideStatus == <<earlierVars, authVars, ttsVars, resetVars, ratingVars, pagingVars>>

outsideAuth == <<earlierVars, statusVars, ttsVars, resetVars, ratingVars, pagingVars>>

outsideTts == <<earlierVars, statusVars, authVars, resetVars, ratingVars, pagingVars>>

outsideReset == <<earlierVars, statusVars, authVars, ttsVars, ratingVars, pagingVars>>

outsideRating == <<earlierVars, statusVars, authVars, ttsVars, resetVars, pagingVars>>

outsidePaging == <<earlierVars, statusVars, authVars, ttsVars, resetVars, ratingVars>>

vars == <<all_tours, resp, calc_tour_sites, calc_result,
          sites, tour_sites, tours, last_request, haversine_call,
          tour_table, tour_response,
          user_is_active, access_tokens, refresh_tokens, device_registrations, device_tokens, auth_response,
          audio_cache, tts_calls,
          reset_token, password_hash, reset_calls,
          feedback_rows, feedback_seq, rated_tours, feedback_response,
          pager>>

\* ======================================================================
\* nearby_tours (app/api/tours.py)
\* ======================================================================

TourLatitudes == {None} \cup {Some(c) : c \in 0..MaxCoord}

TourLongitudes == {Some(1)}

TourNeighborhoods == {None, Some("SoHo"), Some("Chelsea")}

\* the columns of a Tour row that nearby_tours reads
TourRows == [latitude : TourLatitudes, longitude : TourLongitudes,
             neighborhood : TourNeighborhoods]

\* query parameters of GET /tours/nearby
OriginLats == {None, Some(0), Some(1)}

OriginLons == {Some(1)}

Offsets == (0 - 1)..MaxOffset

Counts == (0 - 1)..MaxCount

MaxDistances == {None, Some(0)}

\* Great-circle distance in millimetres between two grid points.  On the
\* 4 mm grid the haversine formula agrees with the planar distance to far
\* below a millimetre; along a meridian (equal longitudes) it is exact.
calculate_distance(lat1, lon1, lat2, lon2) ==
    ISqrt((4 * (lat2 - lat1)) * (4 * (lat2 - lat1))
          + (4 * (lon2 - lon1)) * (4 * (lon2 - lon1)))

\* round(distance, 2): millimetres rounded to the centimetre, ties to even,
\* result still in millimetres.
Round2(d) ==
    LET q == d \div 10
        r == d % 10
    IN  IF r < 5 THEN 10 * q
        ELSE IF r > 5 THEN 10 * (q + 1)
        ELSE IF q % 2 = 0 THEN 10 * q ELSE 10 * (q + 1)

\* the positional test of the loop: "if not tour.latitude or not tour.longitude: continue"
HasCoordinates(tour) == TruthyNum(tour.latitude) /\ TruthyNum(tour.longitude)

\* mutant: a candidate exactly max_distance away is dropped as well
TooFar_Inclusive(distance, max_distance) ==
    max_distance # None /\ distance >= 1000 * max_distance[1]

\* "max_distance is not None and distance > max_distance" (max_distance in metres)
TooFar(distance, max_distance) ==
    max_distance # None /\ distance > 1000 * max_distance[1]

\* mutant: no sentinel, a missing neighborhood is passed on as the text of null
NeighborhoodLabel_NoSentinel(tour) ==
    IF TruthyStr(tour.neighborhood) THEN tour.neighborhood[1] ELSE "None"

\* tour.neighborhood or 'Unspecified'
NeighborhoodLabel(tour) ==
    IF TruthyStr(tour.neighborhood) THEN tour.neighborhood[1] ELSE "Unspecified"

\* The loop that builds tours_with_distance, over the rows i..Len(rows).
\* An item refers to its Tour row by the row's index.
RECURSIVE ToursWithDistanceFrom(_, _, _, _, _)
ToursWithDistanceFrom(rows, i, lat, lon, max_distance) ==
    IF i > Len(rows) THEN <<>>
    ELSE LET tour == rows[i]
             rest == ToursWithDistanceFrom(rows, i + 1, lat, lon, max_distance)
         IN  IF ~HasCoordinates(tour) THEN rest
             ELSE LET distance == calculate_distance(lat, lon,
                                      tour.latitude[1], tour.longitude[1])
                  IN  IF TooFar(distance, max_distance) THEN rest
                      ELSE <<[tour |-> i,
                              distance |-> Round2(distance),
                              neighborhood |-> NeighborhoodLabel(tour)]>> \o rest

\* mutant: the item goes in front of the items with an equal key
RECURSIVE InsertByDistance_BeforeEqual(_, _)
InsertByDistance_BeforeEqual(sorted, item) ==
    IF sorted = <<>> THEN <<item>>
    ELSE IF item.distance <= sorted[1].distance THEN <<item>> \o sorted
    ELSE <<sorted[1]>> \o InsertByDistance_BeforeEqual(Tail(sorted), item)

\* insertion of an item behind every item whose key is <= its own
RECURSIVE InsertByDistance(_, _)
InsertByDistance(sorted, item) ==
    IF sorted = <<>> THEN <<item>>
    ELSE IF item.distance < sorted[1].distance THEN <<item>> \o sorted
    ELSE <<sorted[1]>> \o InsertByDistance(Tail(sorted), item)

\* tours_with_distance.sort(key=lambda x: x['distance']): a stable sort
RECURSIVE SortByDistance(_)
SortByDistance(items) ==
    IF items = <<>> THEN <<>>
    ELSE InsertByDistance(SortByDistance(SubSeq(items, 1, Len(items) - 1)),
                          items[Len(items)])

\* the loop over the sorted items that appends a label the first time it is seen
RECURSIVE NeighborhoodsOrderedFrom(_, _, _)
NeighborhoodsOrderedFrom(items, i, seen) ==
    IF i > Len(items) THEN <<>>
    ELSE IF items[i].neighborhood \in seen
         THEN NeighborhoodsOrderedFrom(items, i + 1, seen)
         ELSE <<items[i].neighborhood>>
              \o NeighborhoodsOrderedFrom(items, i + 1, seen \cup {items[i].neighborhood})

\* mutant: every item appends its label, seen before or not
NeighborhoodsOrdered_NoSeenCheck(items) ==
    [j \in 1..Len(items) |-> items[j].neighborhood]

NeighborhoodsOrdered(items) == NeighborhoodsOrderedFrom(items, 1, {})

\* Python's list[start:stop]: a negative index counts from the end, and both
\* indices are clamped to the list.
PySlice(list, start, stop) ==
    LET n == Len(list)
        lo == IF start < 0 THEN (IF start + n < 0 THEN 0 ELSE start + n)
              ELSE IF start > n THEN n ELSE start
        hi == IF stop < 0 THEN (IF stop + n < 0 THEN 0 ELSE stop + n)
              ELSE IF stop > n THEN n ELSE stop
    IN  IF hi > lo THEN SubSeq(list, lo + 1, hi) ELSE <<>>

\* mutant: the slice ends at neighborhood_count instead of start_idx + neighborhood_count
SelectedNeighborhoods_CountAsEnd(neighborhoods_ordered, neighborhood_offset, neighborhood_count) ==
    PySlice(neighborhoods_ordered, neighborhood_offset, neighborhood_count)

\* neighborhoods_ordered[start_idx:end_idx]
SelectedNeighborhoods(neighborhoods_ordered, neighborhood_offset, neighborhood_count) ==
    PySlice(neighborhoods_ordered, neighborhood_offset,
            neighborhood_offset + neighborhood_count)

Range(seq) == {seq[i] : i \in 1..Len(seq)}

\* mutant: the tours are not filtered by the selected neighborhoods
FilteredTours_Unfiltered(items, selected) == items

\* [item for item in tours_with_distance if item['neighborhood'] in selected_neighborhoods]
RECURSIVE FilteredTours(_, _)
FilteredTours(items, selected) ==
    IF items = <<>> THEN <<>>
    ELSE IF items[1].neighborhood \in Range(selected)
         THEN <<items[1]>> \o FilteredTours(Tail(items), selected)
         ELSE FilteredTours(Tail(items), selected)

\* mutant: end_idx <= total_neighborhoods
HasMore_Inclusive(neighborhood_offset, neighborhood_count, total_neighborhoods) ==
    neighborhood_offset + neighborhood_count <= total_neighborhoods

\* 'hasMore': end_idx < total_neighborhoods
HasMore(neighborhood_offset, neighborhood_count, total_neighborhoods) ==
    neighborhood_offset + neighborhood_count < total_neighborhoods

\* the sorted tours_with_distance of a request
SortedToursWithDistance(rows, lat, lon, max_distance) ==
    SortByDistance(ToursWithDistanceFrom(rows, 1, lat, lon, max_distance))

\* the response of GET /tours/nearby for valid lat and lon
NearbyResponse(rows, lat, lon, neighborhood_count, neighborhood_offset, max_distance) ==
    LET tours_with_distance == SortedToursWithDistance(rows, lat, lon, max_distance)
        neighborhoods_ordered == NeighborhoodsOrdered(tours_with_distance)
        selected_neighborhoods ==
            SelectedNeighborhoods(neighborhoods_ordered, neighborhood_offset,
                                  neighborhood_count)
    IN  [status |-> 200,
         lat |-> lat, lon |-> lon,
         neighborhood_count |-> neighborhood_count,
         max_distance |-> max_distance,
         tours_with_distance |-> tours_with_distance,
         neighborhoods_ordered |-> neighborhoods_ordered,
         tours |-> FilteredTours(tours_with_distance, selected_neighborhoods),
         neighborhoods |-> selected_neighborhoods,
         totalNeighborhoods |-> Len(neighborhoods_ordered),
         neighborhoodOffset |-> neighborhood_offset,
         hasMore |-> HasMore(neighborhood_offset, neighborhood_count,
                             Len(neighborhoods_ordered))]

NoResponse == [status |-> 0]

BadRequest == [status |-> 400]

InitNearby ==
    /\ all_tours = <<>>
    /\ resp = NoResponse

\* A tour row becomes visible to the query (create_tour / update_tour of its
\* position and neighborhood) while no request is being served.
StoreTour ==
    /\ resp = NoResponse
    /\ Len(all_tours) < MaxTours
    /\ \E row \in TourRows : all_tours' = Append(all_tours, row)
    /\ UNCHANGED <<laterVars, haversine_call, resp, calcVars, dbVars>>

\* GET /tours/nearby without lat or lon
NearbyToursBadRequest ==
    /\ resp = NoResponse
    /\ \E lat \in OriginLats, lon \in OriginLons : lat = None \/ lon = None
    /\ resp' = BadRequest
    /\ UNCHANGED <<laterVars, haversine_call, all_tours, calcVars, dbVars>>

\* GET /tours/nearby
NearbyTours ==
    /\ resp = NoResponse
    /\ \E lat \in OriginLats \ {None}, lon \in OriginLons \ {None},
          neighborhood_count \in Counts, neighborhood_offset \in Offsets,
          max_distance \in MaxDistances :
          resp' = NearbyResponse(all_tours, lat[1], lon[1], neighborhood_count,
                                 neighborhood_offset, max_distance)
    /\ UNCHANGED <<laterVars, haversine_call, all_tours, calcVars, dbVars>>

\* the response has been sent; the request is over
SendResponse ==
    /\ resp # NoResponse
    /\ resp' = NoResponse
    /\ UNCHANGED <<laterVars, haversine_call, all_tours, calcVars, dbVars>>

NextNearby == StoreTour \/ NearbyToursBadRequest \/ NearbyTours \/ SendResponse

\* ======================================================================
\* tour_calculator (app/services/tour_calculator.py)
\* ======================================================================

\* 73.15 metres per minute, in hundredths
WALKING_SPEED_METERS_PER_MINUTE_X100 == 7315

NARRATION_WORDS_PER_MINUTE == 130

\* 1.2, in tenths
CITY_GRID_ADJUSTMENT_X10 == 12

\* Great-circle distance in metres between two points of the site grid,
\* whose step is 1788 m.  Along a meridian the haversine formula gives
\* exactly R * |delta_lat|; elsewhere the planar distance stands for it.
haversine_distance(lat1, lon1, lat2, lon2) ==
    IF lon1 = lon2 THEN 1788 * Abs(lat2 - lat1)
    ELSE ISqrt((1788 * 1788) * ((lat2 - lat1) * (lat2 - lat1)
                                + (lon2 - lon1) * (lon2 - lon1)))

\* the characters str.split() separates at
Whitespace == {" ", "\t", "\n"}

\* mutant: text.split(" "), which yields a piece at every single blank
SplitCount_AtEveryBlank(text, i) ==
    1 + Cardinality({k \in i..Len(text) : text[k] = " "})

\* ---- haversine_distance applied to the points of a grid around (0, 0)

GridCoordinates == (0 - MaxPoint)..MaxPoint

NoCall == [distance |-> 0 - 1]

InitHaversine == haversine_call = NoCall

\* haversine_distance(lat1, lon1, lat2, lon2)
HaversineDistance ==
    /\ haversine_call = NoCall
    /\ \E lat1 \in GridCoordinates, lon1 \in GridCoordinates,
          lat2 \in GridCoordinates, lon2 \in GridCoordinates :
          haversine_call' = [lat1 |-> lat1, lon1 |-> lon1, lat2 |-> lat2, lon2 |-> lon2,
                             distance |-> haversine_distance(lat1, lon1, lat2, lon2)]
    /\ UNCHANGED <<laterVars, nearbyVars, calcVars, dbVars>>

\* the caller has taken the distance
HaversineReturn ==
    /\ haversine_call # NoCall
    /\ haversine_call' = NoCall
    /\ UNCHANGED <<laterVars, nearbyVars, calcVars, dbVars>>

NextHaversine == HaversineDistance \/ HaversineReturn

\* len(text.split()): the number of maximal runs of non-whitespace
\* characters that begin at position i or later
SplitCount(text, i) ==
    Cardinality({k \in i..Len(text) :
                    text[k] \notin Whitespace /\ (k = 1 \/ text[k - 1] \in Whitespace)})

\* count_words(text), text a sequence of characters or None
count_words(text) ==
    IF text = None \/ text = Some(<<>>) THEN 0 ELSE SplitCount(text[1], 1)

\* mutant: a missing description is narrated as one word
DescriptionOrEmpty_NullAsWord(site) ==
    IF site.description = None THEN Some(<<"w">>) ELSE site.description

\* site.description or ''
DescriptionOrEmpty(site) ==
    IF site.description = None THEN Some(<<>>) ELSE site.description

\* insertion of a TourSite behind every one whose display_order is <= its own
RECURSIVE InsertByOrder(_, _)
InsertByOrder(sorted, ts) ==
    IF sorted = <<>> THEN <<ts>>
    ELSE IF ts.display_order < sorted[1].display_order THEN <<ts>> \o sorted
    ELSE <<sorted[1]>> \o InsertByOrder(Tail(sorted), ts)

\* mutant: the collection is traversed in the order it is presented in
SortedByDisplayOrder_AsPresented(tss) == tss

\* sorted(tour.tour_sites, key=lambda ts: ts.display_order)
RECURSIVE SortedByDisplayOrder(_)
SortedByDisplayOrder(tss) ==
    IF tss = <<>> THEN <<>>
    ELSE InsertByOrder(SortedByDisplayOrder(SubSeq(tss, 1, Len(tss) - 1)),
                       tss[Len(tss)])

\* "site1.latitude and site1.longitude and site2.latitude and site2.longitude"
BothHaveCoordinates(site1, site2) ==
    /\ TruthyNum(site1.latitude) /\ TruthyNum(site1.longitude)
    /\ TruthyNum(site2.latitude) /\ TruthyNum(site2.longitude)

\* the loop "for i in range(len(sites) - 1)", from pair i on (1-based)
RECURSIVE TotalDistanceFrom(_, _)
TotalDistanceFrom(site_list, i) ==
    IF i >= Len(site_list) THEN 0
    ELSE (IF BothHaveCoordinates(site_list[i], site_list[i + 1])
          THEN haversine_distance(site_list[i].latitude[1], site_list[i].longitude[1],
                                  site_list[i + 1].latitude[1], site_list[i + 1].longitude[1])
          ELSE 0)
         + TotalDistanceFrom(site_list, i + 1)

\* mutant: only the first site's words are counted
TotalWordsFrom_FirstSiteOnly(site_list, i) ==
    IF i > 1 \/ site_list = <<>> THEN 0
    ELSE count_words(DescriptionOrEmpty(site_list[1]))

\* sum(count_words(site.description or '') for site in sites), from site i on
RECURSIVE TotalWordsFrom(_, _)
TotalWordsFrom(site_list, i) ==
    IF i > Len(site_list) THEN 0
    ELSE count_words(DescriptionOrEmpty(site_list[i])) + TotalWordsFrom(site_list, i + 1)

\* round(adjusted_distance) for adjusted_distance = total_distance * 1.2
RoundAdjusted(total_distance) ==
    (2 * CITY_GRID_ADJUSTMENT_X10 * total_distance + 10) \div 20

\* mutant: the sum of the minutes is rounded down
CeilMinutes_Floor(total_distance, total_words) ==
    (10 * CITY_GRID_ADJUSTMENT_X10 * NARRATION_WORDS_PER_MINUTE * total_distance
         + WALKING_SPEED_METERS_PER_MINUTE_X100 * total_words)
        \div (WALKING_SPEED_METERS_PER_MINUTE_X100 * NARRATION_WORDS_PER_MINUTE)

\* math.ceil(walking_minutes + narration_minutes), as an exact fraction:
\*   total_distance * 1.2 / 73.15 + total_words / 130
\*     = (120 * 130 * total_distance + 7315 * total_words) / (7315 * 130)
CeilMinutes(total_distance, total_words) ==
    LET num == 10 * CITY_GRID_ADJUSTMENT_X10 * NARRATION_WORDS_PER_MINUTE * total_distance
               + WALKING_SPEED_METERS_PER_MINUTE_X100 * total_words
        den == WALKING_SPEED_METERS_PER_MINUTE_X100 * NARRATION_WORDS_PER_MINUTE
    IN  (num + den - 1) \div den

\* mutant: a tour of one stop returns early like the empty tour
calculate_tour_metrics_SingleStopAsEmpty(tss) ==
    LET tour_sites_ordered == SortedByDisplayOrder(tss)
        site_list == [i \in 1..Len(tour_sites_ordered) |-> tour_sites_ordered[i].site]
    IN  IF Len(site_list) <= 1 THEN <<0, 0>>
        ELSE <<RoundAdjusted(TotalDistanceFrom(site_list, 1)),
               CeilMinutes(TotalDistanceFrom(site_list, 1), TotalWordsFrom(site_list, 1))>>

\* calculate_tour_metrics(tour), given tour.tour_sites; every TourSite
\* carries its site row.  The result is <<distance_meters, total_minutes>>.
calculate_tour_metrics(tss) ==
    LET tour_sites_ordered == SortedByDisplayOrder(tss)
        site_list == [i \in 1..Len(tour_sites_ordered) |-> tour_sites_ordered[i].site]
    IN  IF Len(site_list) = 0 THEN <<0, 0>>
        ELSE LET total_distance == TotalDistanceFrom(site_list, 1)
                 total_words == TotalWordsFrom(site_list, 1)
             IN  <<RoundAdjusted(total_distance),
                   CeilMinutes(total_distance, total_words)>>

\* ---- the calculator applied to bounded inputs

SiteLatitudes == {None} \cup {Some(c) : c \in 0..MaxSiteCoord}

SiteLongitudes == {Some(1)}

SiteDescriptions == {None, Some(<<"w">>)}

\* the columns of a Site that calculate_tour_metrics reads
SiteValues == [latitude : SiteLatitudes, longitude : SiteLongitudes,
               description : SiteDescriptions]

NoResult == <<>>

InitCalc ==
    /\ calc_tour_sites = <<>>
    /\ calc_result = NoResult

\* One more TourSite in the collection handed to the calculator; the
\* display orders are distinct, the collection is in any order.
AddTourSite ==
    /\ calc_result = NoResult
    /\ Len(calc_tour_sites) < MaxStops
    /\ \E site \in SiteValues,
          order \in (1..MaxStops) \ {calc_tour_sites[i].display_order :
                                        i \in 1..Len(calc_tour_sites)} :
          calc_tour_sites' = Append(calc_tour_sites,
                                    [site |-> site, display_order |-> order])
    /\ UNCHANGED <<laterVars, haversine_call, calc_result, nearbyVars, dbVars>>

\* calculate_tour_metrics(tour)
CalculateTourMetrics ==
    /\ calc_result = NoResult
    /\ calc_result' = calculate_tour_metrics(calc_tour_sites)
    /\ UNCHANGED <<laterVars, haversine_call, calc_tour_sites, nearbyVars, dbVars>>

\* the caller has taken the result
TakeResult ==
    /\ calc_result # NoResult
    /\ calc_result' = NoResult
    /\ UNCHANGED <<laterVars, haversine_call, calc_tour_sites, nearbyVars, dbVars>>

NextCalc == AddTourSite \/ CalculateTourMetrics \/ TakeResult

\* ======================================================================
\* The stop lists in the database: create_site, delete_site
\* (app/api/sites.py) and update_tour (app/api/tours.py)
\* ======================================================================

SiteIds == 1..MaxSites

TourIds == 1..MaxDbTours

\* The site a client creates under an id: sites.latitude and
\* sites.longitude are NOT NULL; the catalogue has a site on the equator,
\* sites one and two grid steps north of it, with and without a description.
SiteRowOf(id) ==
    [latitude |-> Some(id % (MaxSiteCoord + 1)),
     longitude |-> Some(1),
     description |-> IF id % 2 = 1 THEN Some(<<"w">>) ELSE None]

\* the values a client sends as durationMinutes and distanceMeters
ClientMetrics == {None, Some(0)}

\* the lists of at most n elements of S
RECURSIVE SeqsUpTo(_, _)
SeqsUpTo(S, n) ==
    IF n = 0 THEN {<<>>}
    ELSE LET shorter == SeqsUpTo(S, n - 1)
         IN  shorter \cup {Append(q, x) : q \in {r \in shorter : Len(r) = n - 1}, x \in S}

\* the siteIds a client sends: lists of site ids, as long as there are ids
SiteIdLists == SeqsUpTo(SiteIds, MaxSites)

NoDuplicates(list) == \A i, j \in 1..Len(list) : list[i] = list[j] => i = j

NoRequest == [op |-> "none", changed |-> {}]

InitDb ==
    /\ sites = [id \in SiteIds |-> None]
    /\ tour_sites = [t \in TourIds |-> <<>>]
    /\ tours = [t \in TourIds |-> [distance_meters |-> None, duration_minutes |-> None]]
    /\ last_request = NoRequest

\* tour.tour_sites with every row's site loaded, as the calculator reads it
LoadedTourSites(all_sites, rows) ==
    [i \in 1..Len(rows) |->
        [site |-> all_sites[rows[i].site_id][1], display_order |-> rows[i].display_order]]

\* mutant: only the first tour that has a row for the site
AffectedTours_FirstOnly(site_id) ==
    LET with_site == {t \in TourIds :
                         \E i \in 1..Len(tour_sites[t]) : tour_sites[t][i].site_id = site_id}
    IN  {t \in with_site : \A u \in with_site : t <= u}

\* affected_tours = [tour_site.tour for tour_site in site.tour_sites]
AffectedTours(site_id) ==
    {t \in TourIds : \E i \in 1..Len(tour_sites[t]) : tour_sites[t][i].site_id = site_id}

\* the rows left after the cascade removed those of the site
RECURSIVE RowsWithout(_, _)
RowsWithout(rows, site_id) ==
    IF rows = <<>> THEN <<>>
    ELSE IF rows[1].site_id = site_id THEN RowsWithout(Tail(rows), site_id)
    ELSE <<rows[1]>> \o RowsWithout(Tail(rows), site_id)

\* [TourSite(site_id, display_order=order) for order, site_id in enumerate(site_ids, start=1)]
NewTourSites(site_ids) ==
    [i \in 1..Len(site_ids) |-> [site_id |-> site_ids[i], display_order |-> i]]

\* the tour row after delete_site recalculated it from its remaining rows
RecalculatedTour(all_sites, rows) ==
    LET metrics == calculate_tour_metrics(LoadedTourSites(all_sites, rows))
    IN  [distance_meters |-> Some(metrics[1]), duration_minutes |-> Some(metrics[2])]

\* POST /sites
create_site ==
    /\ \E id \in SiteIds :
          /\ sites[id] = None
          /\ sites' = [sites EXCEPT ![id] = Some(SiteRowOf(id))]
    /\ last_request' = [op |-> "create_site", changed |-> {}]
    /\ UNCHANGED <<laterVars, haversine_call, tour_sites, tours, nearbyVars, calcVars>>

\* DELETE /sites/<id>: the site and its tour_sites rows go, then every
\* affected tour is refreshed and its metrics recalculated and stored.
delete_site ==
    \E id \in SiteIds :
        /\ sites[id] # None
        /\ LET affected_tours == AffectedTours(id)
               remaining == [t \in TourIds |-> RowsWithout(tour_sites[t], id)]
           IN  /\ sites' = [sites EXCEPT ![id] = None]
               /\ tour_sites' = remaining
               /\ tours' = [t \in TourIds |->
                               IF t \in affected_tours
                               THEN RecalculatedTour(sites, remaining[t])
                               ELSE tours[t]]
               /\ last_request' = [op |-> "delete_site", changed |-> affected_tours]
        /\ UNCHANGED <<laterVars, haversine_call, nearbyVars, calcVars>>

\* PUT /tours/<id> by the owner or an admin, answered 200: the metrics the
\* client sent are stored, and the stop list is replaced when siteIds is
\* sent.  None is a key the body does not have; a client sends
\* durationMinutes and distanceMeters together.
update_tour ==
    \E t \in TourIds, metrics \in ClientMetrics,
       siteIds \in {None} \cup {Some(l) : l \in SiteIdLists} :
        /\ siteIds # None =>
              /\ \A i \in 1..Len(siteIds[1]) : sites[siteIds[1][i]] # None
              /\ NoDuplicates(siteIds[1])
        /\ tours' = [tours EXCEPT
                        ![t].duration_minutes = IF metrics # None THEN metrics ELSE @,
                        ![t].distance_meters = IF metrics # None THEN metrics ELSE @]
        /\ tour_sites' = IF siteIds # None
                         THEN [tour_sites EXCEPT ![t] = NewTourSites(siteIds[1])]
                         ELSE tour_sites
        /\ last_request' = [op |-> "update_tour",
                            changed |-> IF siteIds # None
                                           /\ NewTourSites(siteIds[1]) # tour_sites[t]
                                        THEN {t} ELSE {}]
        /\ UNCHANGED <<laterVars, haversine_call, sites, nearbyVars, calcVars>>

\* PUT /tours/<id> answered 404 (a site id that does not exist) or failing
\* on the primary key of tour_sites (a site id sent twice): nothing is
\* committed.
update_tour_rejected ==
    /\ \E site_ids \in SiteIdLists :
          \/ \E i \in 1..Len(site_ids) : sites[site_ids[i]] = None
          \/ ~NoDuplicates(site_ids)
    /\ last_request' = [op |-> "update_tour_rejected", changed |-> {}]
    /\ UNCHANGED <<laterVars, haversine_call, sites, tour_sites, tours, nearbyVars, calcVars>>

Next == create_site \/ delete_site \/ update_tour \/ update_tour_rejected

\* ======================================================================
\* Tour status and visibility (app/api/tours.py, app/api/admin/tours.py)
\*
\* A caller is the JWT of the request: its identity (str(user.id) for a user
\* token, "device:<device_id>" for a device token) and its role claim (user
\* tokens only).  A handler that returns without db.session.commit() leaves
\* the table as it was: the session is discarded with the request.
\* ======================================================================

StatusTourIds == 1..MaxStatusTours

UserIdentity(id) == [kind |-> "user", id |-> id]

DeviceIdentity == [kind |-> "device", id |-> 1]

Callers ==
    { [identity |-> UserIdentity(1), role |-> Some("creator")],
      [identity |-> UserIdentity(2), role |-> Some("creator")],
      [identity |-> UserIdentity(3), role |-> Some("admin")],
      [identity |-> DeviceIdentity,  role |-> None] }

\* jwt_identity.isdigit()
IsDigit(identity) == identity.kind = "user"

\* user_id = int(jwt_identity) if jwt_identity and jwt_identity.isdigit() else None
UserIdOf(identity) == IF IsDigit(identity) THEN Some(identity.id) ELSE None

\* claims.get('role') == 'admin'
IsAdmin(caller) == caller.role = Some("admin")

valid_statuses == {"draft", "ready", "published", "archived"}

\* the JSON bodies of PUT /tours/<id>: a name, a status, both or neither;
\* "live" is a status the handler does not know
RequestedStatuses == {None} \cup {Some(s) : s \in valid_statuses \cup {"live"}}

UpdateData == [name : {None, Some("renamed")}, status : RequestedStatuses]

NoData == [name |-> None, status |-> None]

NoTourResponse == [op |-> "none"]

TourResponse(op, caller, tour_id, data, code, returned) == [op |-> op, caller |-> caller, tour_id |-> tour_id, data |-> data, code |-> code, tours |-> returned]

InitStatus ==
    /\ tour_table = [t \in StatusTourIds |-> None]
    /\ tour_response = NoTourResponse

FreeTourIds == {t \in StatusTourIds : tour_table[t] = None}

\* the callers who create tours: the second creator owns no tour, and is a
\* stranger to every tour stored
Authors == {c \in Callers : c.identity # UserIdentity(2)}

\* create_tour: the tour is stored as a draft of the caller
create_tour ==
    /\ tour_response = NoTourResponse
    /\ \E caller \in Authors :
          IF ~IsDigit(caller.identity)
          THEN \* int("device:...") raises ValueError
               /\ tour_response' = TourResponse("create_tour", caller, 0, NoData, 500, {})
               /\ UNCHANGED tour_table
          ELSE \E t \in FreeTourIds :
               /\ tour_table' = [tour_table EXCEPT ![t] =
                      Some([owner_id |-> caller.identity.id, name |-> "tour",
                            status |-> "draft", published_at |-> None])]
               /\ tour_response' = TourResponse("create_tour", caller, t, NoData, 201, {t})
    /\ UNCHANGED outsideStatus

\* status = 'published' if published else 'draft'
UploadedStatus(published) == IF published THEN "published" ELSE "draft"

\* bulk_upload_tours with one tour in "tours": the tour is stored for the
\* admin who uploads it; the constructor is not given published_at
bulk_upload_tours ==
    /\ tour_response = NoTourResponse
    /\ \E caller \in {c \in Callers : IsAdmin(c)}, published \in BOOLEAN, t \in FreeTourIds :
          /\ tour_table' = [tour_table EXCEPT ![t] =
                 Some([owner_id |-> caller.identity.id, name |-> "tour",
                       status |-> UploadedStatus(published), published_at |-> None])]
          /\ tour_response' = TourResponse("bulk_upload_tours", caller, t, NoData, 200, {t})
    /\ UNCHANGED outsideStatus

\* update_tour, "Update fields": the fields present in the body are assigned
WithFields(tour, data) == IF data.name # None THEN [tour EXCEPT !.name = data.name[1]] ELSE tour

\* if new_status == 'published' and not tour.published_at
WithPublishedAt(tour, new_status) == IF new_status = "published" /\ tour.published_at = None THEN [tour EXCEPT !.published_at = Some("utcnow")] ELSE tour

\* mutant: the creator rule is missing, every caller may set any valid status
WithStatus_CreatorsAnyStatus(tour, data, is_admin) == IF data.status = None THEN [code |-> 200, tour |-> tour] ELSE IF data.status[1] \notin valid_statuses THEN [code |-> 400, tour |-> tour] ELSE [code |-> 200, tour |-> WithPublishedAt([tour EXCEPT !.status = data.status[1]], data.status[1])]

\* update_tour, "Status changes": the tour the handler goes on with, or the
\* code it returns at once
WithStatus(tour, data, is_admin) ==
    IF data.status = None THEN [code |-> 200, tour |-> tour]
    ELSE LET new_status == data.status[1] IN
         IF new_status \notin valid_statuses THEN [code |-> 400, tour |-> tour]
         ELSE IF ~is_admin
              THEN IF tour.status = "draft" /\ new_status = "ready"
                   THEN [code |-> 200, tour |-> [tour EXCEPT !.status = new_status]]
                   ELSE IF tour.status = new_status
                        THEN [code |-> 200, tour |-> tour]
                        ELSE [code |-> 403, tour |-> tour]
              ELSE [code |-> 200,
                    tour |-> WithPublishedAt([tour EXCEPT !.status = new_status], new_status)]

\* update_tour: the code returned and the row committed (the stored row when
\* the handler returns before db.session.commit())
UpdateTourResult(caller, tour_id, data) ==
    IF ~IsDigit(caller.identity) THEN [code |-> 500, row |-> tour_table[tour_id]]
    ELSE LET user_id  == caller.identity.id
             is_admin == IsAdmin(caller)
             stored   == tour_table[tour_id]
         IN  IF stored = None THEN [code |-> 404, row |-> stored]
             ELSE IF ~is_admin /\ stored[1].owner_id # user_id THEN [code |-> 403, row |-> stored]
             ELSE IF ~is_admin /\ stored[1].status = "ready" THEN [code |-> 403, row |-> stored]
             ELSE IF data = NoData THEN [code |-> 400, row |-> stored]
             ELSE LET result == WithStatus(WithFields(stored[1], data), data, is_admin)
                  IN  IF result.code = 200
                      THEN [code |-> 200, row |-> Some(result.tour)]
                      ELSE [code |-> result.code, row |-> stored]

update_tour_status ==
    /\ tour_response = NoTourResponse
    /\ \E caller \in Callers, tour_id \in StatusTourIds, data \in UpdateData :
          LET result == UpdateTourResult(caller, tour_id, data)
          IN  /\ tour_table' = [tour_table EXCEPT ![tour_id] = result.row]
              /\ tour_response' = TourResponse("update_tour", caller, tour_id, data, result.code, {})
    /\ UNCHANGED outsideStatus

\* mutant: the query has no access control filter
VisibleTours_All(user_id) == {t \in StatusTourIds : tour_table[t] # None}

\* or_(Tour.status == 'published', Tour.owner_id == user_id)
VisibleTours(user_id) ==
    {t \in StatusTourIds :
        /\ tour_table[t] # None
        /\ \/ tour_table[t][1].status = "published"
           \/ Some(tour_table[t][1].owner_id) = user_id}

\* get_tour
get_tour ==
    /\ tour_response = NoTourResponse
    /\ \E caller \in Callers, tour_id \in StatusTourIds :
          LET user_id == UserIdOf(caller.identity)
              code    == IF tour_table[tour_id] = None THEN 404
                         ELSE IF tour_id \notin VisibleTours(user_id) /\ ~IsAdmin(caller)
                              THEN 403 ELSE 200
          IN  tour_response' = TourResponse("get_tour", caller, tour_id, NoData, code,
                                            IF code = 200 THEN {tour_id} ELSE {})
    /\ UNCHANGED <<outsideStatus, tour_table>>

\* list_tours without search, status, city or neighborhood parameters
list_tours ==
    /\ tour_response = NoTourResponse
    /\ \E caller \in Callers :
          tour_response' = TourResponse("list_tours", caller, 0, NoData, 200,
                                        VisibleTours(UserIdOf(caller.identity)))
    /\ UNCHANGED <<outsideStatus, tour_table>>

\* nearby_tours: the rows its query selects, before the distance filter
nearby_tours_query ==
    /\ tour_response = NoTourResponse
    /\ \E caller \in Callers :
          tour_response' = TourResponse("nearby_tours", caller, 0, NoData, 200,
                                        VisibleTours(UserIdOf(caller.identity)))
    /\ UNCHANGED <<outsideStatus, tour_table>>

SendTourResponse ==
    /\ tour_response # NoTourResponse
    /\ tour_response' = NoTourResponse
    /\ UNCHANGED <<outsideStatus, tour_table>>

NextStatus == create_tour \/ bulk_upload_tours \/ update_tour_status \/ get_tour \/ list_tours \/ nearby_tours_query \/ SendTourResponse

\* ======================================================================
\* Accounts, tokens and devices (app/api/auth.py, app/api/admin/users.py,
\* app/__init__.py, app/models/device.py)
\*
\* A token is named by the user or the device it was issued to; tokens are
\* kept for as long as they have not expired.
\* ======================================================================

AuthUserIds == 1..MaxAuthUsers

DeviceIds == 1..MaxDevices

\* users.role: the first user is the admin
RoleOf(user_id) == IF user_id = 1 THEN "admin" ELSE "creator"

\* the passwords sent to login: the user's own and another one
Passwords == {"password123", "wrong"}

\* user.check_password(data['password'])
check_password(user_id, password) == password = "password123"

\* data['api_key'] of register_device: absent, ADMIN_API_KEY, or another key
ApiKeys == {None, Some("ADMIN_API_KEY"), Some("other")}

NoAuthResponse == [op |-> "none"]

AuthResponse(op, user_id, device_id, code) == [op |-> op, user |-> user_id, device |-> device_id, code |-> code]

InitAuth ==
    /\ user_is_active = [u \in AuthUserIds |-> TRUE]
    /\ access_tokens = {}
    /\ refresh_tokens = {}
    /\ device_registrations = [d \in DeviceIds |-> None]
    /\ device_tokens = {}
    /\ auth_response = NoAuthResponse

\* register_device: the api key is checked and a device token is created;
\* nothing is written to device_registrations
register_device ==
    /\ auth_response = NoAuthResponse
    /\ \E api_key \in ApiKeys, device_id \in DeviceIds :
          LET code == IF api_key = None THEN 400
                      ELSE IF api_key # Some("ADMIN_API_KEY") THEN 401 ELSE 200
          IN  /\ device_tokens' = IF code = 200 THEN device_tokens \cup {device_id} ELSE device_tokens
              /\ auth_response' = AuthResponse("register_device", 0, device_id, code)
    /\ UNCHANGED <<outsideAuth, user_is_active, access_tokens, refresh_tokens, device_registrations>>

\* DeviceRegistration.is_device_active: a row with this device_id and is_active
is_device_active(device_id) ==
    /\ device_registrations[device_id] # None
    /\ device_registrations[device_id][1].is_active

\* check_if_token_revoked for the payload of a device token: True blocks it
TokenRevoked(device_id) == ~is_device_active(device_id)

\* a request to a @jwt_required() endpoint with a device token: the
\* blocklist callback decides whether the token is accepted
check_if_token_revoked ==
    /\ auth_response = NoAuthResponse
    /\ \E device_id \in device_tokens :
          auth_response' = AuthResponse("check_if_token_revoked", 0, device_id,
                                        IF TokenRevoked(device_id) THEN 401 ELSE 200)
    /\ UNCHANGED <<outsideAuth, user_is_active, access_tokens, refresh_tokens, device_registrations, device_tokens>>

\* login
login ==
    /\ auth_response = NoAuthResponse
    /\ \E user_id \in AuthUserIds, password \in Passwords :
          LET code == IF ~check_password(user_id, password) THEN 401
                      ELSE IF ~user_is_active[user_id] THEN 403 ELSE 200
          IN  /\ access_tokens' = IF code = 200 THEN access_tokens \cup {user_id} ELSE access_tokens
              /\ refresh_tokens' = IF code = 200 THEN refresh_tokens \cup {user_id} ELSE refresh_tokens
              /\ auth_response' = AuthResponse("login", user_id, 0, code)
    /\ UNCHANGED <<outsideAuth, user_is_active, device_registrations, device_tokens>>

\* refresh, with a refresh token
refresh ==
    /\ auth_response = NoAuthResponse
    /\ \E user_id \in refresh_tokens :
          LET code == IF ~user_is_active[user_id] THEN 401 ELSE 200
          IN  /\ access_tokens' = IF code = 200 THEN access_tokens \cup {user_id} ELSE access_tokens
              /\ auth_response' = AuthResponse("refresh", user_id, 0, code)
    /\ UNCHANGED <<outsideAuth, user_is_active, refresh_tokens, device_registrations, device_tokens>>

\* get_current_user behind @jwt_required(): the token is verified and the
\* user is looked up; the row is found whether or not it is active
UserEndpointCode(user_id) == IF user_id \in AuthUserIds THEN 200 ELSE 404

\* get_current_user (GET /auth/me), with an access token
get_current_user ==
    /\ auth_response = NoAuthResponse
    /\ \E user_id \in access_tokens :
          auth_response' = AuthResponse("get_current_user", user_id, 0, UserEndpointCode(user_id))
    /\ UNCHANGED <<outsideAuth, user_is_active, access_tokens, refresh_tokens, device_registrations, device_tokens>>

\* an endpoint behind @flexible_auth_required(), with an access token
flexible_auth_required ==
    /\ auth_response = NoAuthResponse
    /\ \E user_id \in access_tokens :
          auth_response' = AuthResponse("flexible_auth_required", user_id, 0,
                                        IF ~user_is_active[user_id] THEN 401 ELSE 200)
    /\ UNCHANGED <<outsideAuth, user_is_active, access_tokens, refresh_tokens, device_registrations, device_tokens>>

\* deactivate_user, with the access token of admin_id
deactivate_user ==
    /\ auth_response = NoAuthResponse
    /\ \E admin_id \in access_tokens, user_id \in AuthUserIds :
          LET code == IF RoleOf(admin_id) # "admin" THEN 403
                      ELSE IF ~user_is_active[user_id] THEN 400 ELSE 200
          IN  /\ user_is_active' = IF code = 200 THEN [user_is_active EXCEPT ![user_id] = FALSE]
                                   ELSE user_is_active
              /\ auth_response' = AuthResponse("deactivate_user", user_id, 0, code)
    /\ UNCHANGED <<outsideAuth, access_tokens, refresh_tokens, device_registrations, device_tokens>>

SendAuthResponse ==
    /\ auth_response # NoAuthResponse
    /\ auth_response' = NoAuthResponse
    /\ UNCHANGED <<outsideAuth, user_is_active, access_tokens, refresh_tokens, device_registrations, device_tokens>>

NextAuth == register_device \/ check_if_token_revoked \/ login \/ refresh \/ get_current_user \/ flexible_auth_required \/ deactivate_user \/ SendAuthResponse

\* ======================================================================
\* generate_audio and the audio cache (app/services/tts_service.py,
\* app/models/audio_cache.py)
\*
\* Calls run concurrently, each in its own session.  A call is split where
\* another call can run in between: after the cache lookup, after the
\* upload, after a failed commit.  update_stats adds one to the
\* access_count of the object the lookup loaded, and the commit writes that
\* number to the row.
\* ======================================================================

Calls == 1..MaxCalls

\* the texts passed to generate_audio: an empty one and a narration
TtsTexts == {"", "narration"}

\* AudioCache.get_hash
get_hash(text) == <<"md5", text>>

\* file_name = f"tts_{uuid.uuid4()}.mp3": every call uploads a file of its own
S3Url(call) == <<"audio/tts", call>>

IdleCall == [pc |-> "idle", text |-> "", loaded |-> None, s3_url |-> None, result |-> None]

InitTts ==
    /\ audio_cache = {}
    /\ tts_calls = [c \in Calls |-> IdleCall]

RowsOf(text) == {row \in audio_cache : row.text_hash = get_hash(text)}

\* AudioCache.find_by_text: query.filter_by(text_hash=...).first()
find_by_text(text) == IF RowsOf(text) = {} THEN None ELSE Some(CHOOSE row \in RowsOf(text) : TRUE)

Success(audio_url, from_cache) == Some([status |-> "success", audio_url |-> audio_url, from_cache |-> from_cache])

Failure == Some([status |-> "error", audio_url |-> None, from_cache |-> FALSE])

\* generate_audio up to the cache lookup: the text is validated and looked up
generate_audio ==
    /\ \E c \in Calls, text \in TtsTexts :
          /\ tts_calls[c].pc = "idle"
          /\ tts_calls' = [tts_calls EXCEPT ![c] =
                 IF text = ""
                 THEN [tts_calls[c] EXCEPT !.pc = "done", !.text = text, !.result = Failure]
                 ELSE IF find_by_text(text) # None
                      THEN [tts_calls[c] EXCEPT !.pc = "update_stats", !.text = text, !.loaded = find_by_text(text)]
                      ELSE [tts_calls[c] EXCEPT !.pc = "request", !.text = text]]
    /\ UNCHANGED <<outsideTts, audio_cache>>

\* the row as the commit of a cache hit leaves it: access_count is the
\* number the lookup loaded, plus one
WithStatsOf(row, loaded) == IF row.text_hash = loaded.text_hash THEN [row EXCEPT !.access_count = loaded.access_count + 1] ELSE row

\* cached_audio.update_stats(); db.session.commit(); return from the cache
update_stats ==
    /\ \E c \in Calls :
          /\ tts_calls[c].pc = "update_stats"
          /\ audio_cache' = {WithStatsOf(row, tts_calls[c].loaded[1]) : row \in audio_cache}
          /\ tts_calls' = [tts_calls EXCEPT ![c] =
                 [tts_calls[c] EXCEPT !.pc = "done", !.result = Success(tts_calls[c].loaded[1].audio_url, TRUE)]]
    /\ UNCHANGED outsideTts

\* requests.post to the speech API and upload_file_to_s3: either fails, or
\* the audio is stored under a new file name
upload_file_to_s3 ==
    /\ \E c \in Calls, ok \in BOOLEAN :
          /\ tts_calls[c].pc = "request"
          /\ tts_calls' = [tts_calls EXCEPT ![c] =
                 IF ok THEN [tts_calls[c] EXCEPT !.pc = "commit", !.s3_url = Some(S3Url(c))]
                 ELSE [tts_calls[c] EXCEPT !.pc = "done", !.result = Failure]]
    /\ UNCHANGED <<outsideTts, audio_cache>>

\* mutant: text_hash is not unique, every insert is committed
UniqueViolation_NoConstraint(text_hash) == FALSE

\* text_hash is unique: the insert of a second row with the hash fails
UniqueViolation(text_hash) == \E row \in audio_cache : row.text_hash = text_hash

\* db.session.add(audio_cache); db.session.commit(): the row is stored and
\* the call returns its own URL, or the commit fails and is rolled back
commit_audio_cache ==
    /\ \E c \in Calls :
          /\ tts_calls[c].pc = "commit"
          /\ IF UniqueViolation(get_hash(tts_calls[c].text))
             THEN /\ tts_calls' = [tts_calls EXCEPT ![c] = [tts_calls[c] EXCEPT !.pc = "rollback"]]
                  /\ UNCHANGED audio_cache
             ELSE /\ audio_cache' = audio_cache \cup
                         {[text_hash |-> get_hash(tts_calls[c].text),
                           audio_url |-> tts_calls[c].s3_url[1], access_count |-> 1]}
                  /\ tts_calls' = [tts_calls EXCEPT ![c] =
                         [tts_calls[c] EXCEPT !.pc = "done", !.result = Success(tts_calls[c].s3_url[1], FALSE)]]
    /\ UNCHANGED outsideTts

\* after the rollback the cache is looked up again: the row of the call that
\* won is returned as a cache hit, without update_stats
find_after_rollback ==
    /\ \E c \in Calls :
          /\ tts_calls[c].pc = "rollback"
          /\ tts_calls' = [tts_calls EXCEPT ![c] =
                 IF find_by_text(tts_calls[c].text) # None
                 THEN [tts_calls[c] EXCEPT !.pc = "done", !.result = Success(find_by_text(tts_calls[c].text)[1].audio_url, TRUE)]
                 ELSE [tts_calls[c] EXCEPT !.pc = "done", !.result = Success(tts_calls[c].s3_url[1], FALSE)]]
    /\ UNCHANGED <<outsideTts, audio_cache>>

NextTts == generate_audio \/ update_stats \/ upload_file_to_s3 \/ commit_audio_cache \/ find_after_rollback

\* ======================================================================
\* reset_password (app/api/auth.py, app/models/user.py)
\*
\* Requests run concurrently, each in its own session; a request is split
\* between the lookup of the token and the commit, where another request
\* can run.
\* ======================================================================

ResetCalls == 1..MaxResetCalls

\* data.get('token'): absent, a string no token has, or the token
TokenStrings == {None, Some("unknown"), Some("reset_token_from_email")}

\* data.get('new_password'): every request sends a password of its own
NewPassword(call) == <<"NewSecurePassword", call>>

IdleReset == [pc |-> "idle", token |-> None, code |-> 0]

InitReset ==
    /\ reset_token = None
    /\ password_hash = <<"password123">>
    /\ reset_calls = [c \in ResetCalls |-> IdleReset]

\* forgot_password: a token is created for the user
forgot_password ==
    /\ reset_token = None
    /\ reset_token' = Some([used |-> FALSE, expired |-> FALSE])
    /\ UNCHANGED <<outsideReset, password_hash, reset_calls>>

\* time passes beyond expires_at
token_expires ==
    /\ reset_token # None
    /\ ~reset_token[1].expired
    /\ reset_token' = Some([reset_token[1] EXCEPT !.expired = TRUE])
    /\ UNCHANGED <<outsideReset, password_hash, reset_calls>>

\* PasswordResetToken.is_valid: not self.used and datetime.utcnow() < self.expires_at
is_valid(token) == ~token.used /\ ~token.expired

\* PasswordResetToken.query.filter_by(token=token_string).first()
FindToken(token_string) == IF token_string = Some("reset_token_from_email") THEN reset_token ELSE None

\* reset_password up to the validity check: 400, or the request goes on to
\* set the password
reset_password ==
    /\ \E c \in ResetCalls, token_string \in TokenStrings :
          /\ reset_calls[c].pc = "idle"
          /\ reset_calls' = [reset_calls EXCEPT ![c] =
                 IF token_string = None
                 THEN [pc |-> "done", token |-> token_string, code |-> 400]
                 ELSE IF FindToken(token_string) = None \/ ~is_valid(FindToken(token_string)[1])
                      THEN [pc |-> "done", token |-> token_string, code |-> 400]
                      ELSE [pc |-> "set_password", token |-> token_string, code |-> 0]]
    /\ UNCHANGED <<outsideReset, reset_token, password_hash>>

\* user.set_password(new_password); token.used = True; db.session.commit()
set_password ==
    /\ \E c \in ResetCalls :
          /\ reset_calls[c].pc = "set_password"
          /\ password_hash' = NewPassword(c)
          /\ reset_token' = Some([reset_token[1] EXCEPT !.used = TRUE])
          /\ reset_calls' = [reset_calls EXCEPT ![c] = [reset_calls[c] EXCEPT !.pc = "done", !.code = 200]]
    /\ UNCHANGED outsideReset

NextReset == forgot_password \/ token_expires \/ reset_password \/ set_password

\* ======================================================================
\* Ratings (app/api/feedback.py, app/api/admin/feedback.py)
\*
\* average_rating is kept in hundredths, so that round(avg, 2) is a real
\* conversion.
\* ======================================================================

FeedbackIds == 1..MaxFeedback

RatedTourIds == 1..MaxRatedTours

\* user_id of submit_feedback: None for an anonymous request
RatingUsers == {None, Some(1)}

\* data['rating']: 0 is outside 1..5
Ratings == {0, 1, 2}

NoFeedbackResponse == [op |-> "none"]

InitRatings ==
    /\ feedback_rows = [f \in FeedbackIds |-> None]
    /\ feedback_seq = 0
    /\ rated_tours = [t \in RatedTourIds |-> [average_rating |-> None, rating_count |-> 0]]
    /\ feedback_response = NoFeedbackResponse

\* Feedback.query.filter_by(tour_id=tour_id, feedback_type='rating') over the rows given
RatingFeedbacks(rows, tour_id) == {f \in FeedbackIds : rows[f] # None /\ rows[f][1].tour_id = tour_id}

RECURSIVE SumRatings(_, _)
\* the sum behind func.avg(Feedback.rating)
SumRatings(rows, ids) ==
    IF ids = {} THEN 0
    ELSE LET f == CHOOSE g \in ids : TRUE
         IN  rows[f][1].rating + SumRatings(rows, ids \ {f})

\* round(float(avg_rating), 2), in hundredths
RoundedAverage(sum, count) == (200 * sum + count) \div (2 * count)

\* "Update tour aggregate rating": the aggregates of the tour over the rows given
WithAggregates(tour, rows, tour_id) ==
    LET ids == RatingFeedbacks(rows, tour_id)
    IN  IF Cardinality(ids) > 0
        THEN [average_rating |-> Some(RoundedAverage(SumRatings(rows, ids), Cardinality(ids))),
              rating_count   |-> Cardinality(ids)]
        ELSE tour

\* "Check for duplicate rating from same user"
AlreadyRated(tour_id, user_id) ==
    /\ user_id # None
    /\ \E f \in RatingFeedbacks(feedback_rows, tour_id) : feedback_rows[f][1].user_id = user_id

\* submit_feedback with feedbackType 'rating' for a tour that exists
submit_feedback ==
    /\ feedback_response = NoFeedbackResponse
    /\ feedback_seq < MaxFeedback
    /\ \E tour_id \in RatedTourIds, user_id \in RatingUsers, rating \in Ratings :
          IF rating < 1 \/ rating > 5 \/ AlreadyRated(tour_id, user_id)
          THEN /\ feedback_response' = [op |-> "submit_feedback", code |-> 400]
               /\ UNCHANGED <<feedback_rows, feedback_seq, rated_tours>>
          ELSE LET id   == feedback_seq + 1
                   rows == [feedback_rows EXCEPT ![id] =
                               Some([tour_id |-> tour_id, user_id |-> user_id, rating |-> rating])]
               IN  /\ feedback_rows' = rows
                   /\ feedback_seq' = id
                   /\ rated_tours' = [rated_tours EXCEPT ![tour_id] = WithAggregates(@, rows, tour_id)]
                   /\ feedback_response' = [op |-> "submit_feedback", code |-> 201]
    /\ UNCHANGED outsideRating

\* delete_feedback: the row is deleted; the tour is not touched
delete_feedback ==
    /\ feedback_response = NoFeedbackResponse
    /\ \E feedback_id \in FeedbackIds :
          IF feedback_rows[feedback_id] = None
          THEN /\ feedback_response' = [op |-> "delete_feedback", code |-> 404]
               /\ UNCHANGED feedback_rows
          ELSE /\ feedback_rows' = [feedback_rows EXCEPT ![feedback_id] = None]
               /\ feedback_response' = [op |-> "delete_feedback", code |-> 200]
    /\ UNCHANGED <<outsideRating, feedback_seq, rated_tours>>

SendFeedbackResponse ==
    /\ feedback_response # NoFeedbackResponse
    /\ feedback_response' = NoFeedbackResponse
    /\ UNCHANGED <<outsideRating, feedback_rows, feedback_seq, rated_tours>>

NextRatings == submit_feedback \/ delete_feedback \/ SendFeedbackResponse

\* ======================================================================
\* A client paging through nearby_tours (app/api/tours.py): the same
\* query is sent with neighborhood_offset 0, pageSize, 2 x pageSize, ...
\* until a response says hasMore = false.  The tours do not change while
\* the client is paging.
\* ======================================================================

PageSizes == 1..MaxPageSize

IdlePager == [state |-> "idle"]

InitPaging == pager = IdlePager

\* a tour is stored before the client starts
StoreTourBeforePaging ==
    /\ pager = IdlePager
    /\ StoreTour

\* the client chooses its query and starts at offset 0
StartPaging ==
    /\ pager = IdlePager
    /\ \E lat \in OriginLats \ {None}, lon \in OriginLons \ {None}, page_size \in PageSizes, max_distance \in MaxDistances :
          pager' = [state |-> "paging", lat |-> lat[1], lon |-> lon[1],
                    page_size |-> page_size, max_distance |-> max_distance,
                    offset |-> 0, pages |-> 0, tours |-> <<>>, neighborhoods |-> <<>>]
    /\ UNCHANGED outsidePaging

\* the tour indexes of the items of a page
TourIndexes(items) == [j \in 1..Len(items) |-> items[j].tour]

\* GET /tours/nearby at the pager's offset: the page is appended to what
\* the client has, and the client goes on while hasMore is true
RequestPage ==
    /\ pager.state = "paging"
    /\ LET page == NearbyResponse(all_tours, pager.lat, pager.lon, pager.page_size,
                                  pager.offset, pager.max_distance)
       IN  pager' = [pager EXCEPT
                        !.tours = @ \o TourIndexes(page.tours),
                        !.neighborhoods = @ \o page.neighborhoods,
                        !.pages = @ + 1,
                        !.offset = IF page.hasMore THEN @ + pager.page_size ELSE @,
                        !.state = IF page.hasMore THEN "paging" ELSE "done"]
    /\ UNCHANGED outsidePaging

NextPaging == StoreTourBeforePaging \/ StartPaging \/ RequestPage

Init == InitDb /\ InitNearby /\ InitCalc /\ InitHaversine /\ InitStatus /\ InitAuth /\ InitTts /\ InitReset /\ InitRatings /\ InitPaging

Spec == Init /\ [][Next]_vars

SpecNearby == Init /\ [][NextNearby]_vars

SpecCalc == Init /\ [][NextCalc]_vars

SpecHaversine == Init /\ [][NextHaversine]_vars

SpecStatus == Init /\ [][NextStatus]_vars

SpecAuth == Init /\ [][NextAuth]_vars

SpecTts == Init /\ [][NextTts]_vars

SpecReset == Init /\ [][NextReset]_vars

SpecRatings == Init /\ [][NextRatings]_vars

SpecPaging == Init /\ [][NextPaging]_vars

\* ======================================================================
\* The calculator applied to narrated tours: stops in display order whose
\* descriptions run from nothing to more than a minute of narration
\* ======================================================================

\* a description of n one-letter words separated by single blanks
Words(n) == [i \in 1..(2 * n - 1) |-> IF i % 2 = 1 THEN "w" ELSE " "]

\* no word, one word, the "negligible" 9 words, the 87 words that lift a
\* walk of one grid step past 30 minutes, and more than a minute of words
NarrationWordCounts == {0, 1, 9, 87, MaxWords}

NarrationTexts == {None} \cup {Some(Words(n)) : n \in NarrationWordCounts}

NarratedSites == [latitude : SiteLatitudes, longitude : SiteLongitudes,
                  description : NarrationTexts]

\* one more stop at the end of the tour
AddNarratedStop ==
    /\ calc_result = NoResult
    /\ Len(calc_tour_sites) < MaxNarratedStops
    /\ \E site \in NarratedSites :
          calc_tour_sites' = Append(calc_tour_sites,
                                    [site |-> site,
                                     display_order |-> Len(calc_tour_sites) + 1])
    /\ UNCHANGED <<laterVars, haversine_call, calc_result, nearbyVars, dbVars>>

NextNarration == AddNarratedStop \/ CalculateTourMetrics \/ TakeResult

SpecNarration == Init /\ [][NextNarration]_vars

\* ======================================================================
\* The calculator applied to tours that stay in one place, whose
\* descriptions are every short text of words and whitespace
\* ======================================================================

\* every text of at most MaxTextLen letters and blanks
ShortTexts == SeqsUpTo({"w", " "}, MaxTextLen)

\* texts with tabs and line breaks
MixedWhitespaceTexts == {<<"\t">>, <<"w", "\t", " ", "w">>, <<"\n", "w", "\n">>}

\* a text one word short of a minute of narration
LongText == Words(NARRATION_WORDS_PER_MINUTE - 1)

DescriptionTexts ==
    {None} \cup {Some(t) : t \in ShortTexts \cup MixedWhitespaceTexts \cup {LongText}}

\* one more stop, at the place of the others
AddTextStop ==
    /\ calc_result = NoResult
    /\ Len(calc_tour_sites) < MaxTextStops
    /\ \E text \in DescriptionTexts :
          calc_tour_sites' =
              Append(calc_tour_sites,
                     [site |-> [latitude |-> Some(1), longitude |-> Some(1),
                                description |-> text],
                      display_order |-> Len(calc_tour_sites) + 1])
    /\ UNCHANGED <<laterVars, haversine_call, calc_result, nearbyVars, dbVars>>

NextWords == AddTextStop \/ CalculateTourMetrics \/ TakeResult

SpecWords == Init /\ [][NextWords]_vars

\* ----------------------------------------------------------------------
\* Properties of nearby_tours
\* ----------------------------------------------------------------------

Served == resp.status = 200

Min(a, b) == IF a < b THEN a ELSE b

Max(a, b) == IF a > b THEN a ELSE b

\* a position is present when neither coordinate is null
Positioned(row) == row.latitude # None /\ row.longitude # None

\* the unrounded distance of row i from the origin of the served request
TrueDistance(i) ==
    calculate_distance(resp.lat, resp.lon,
                       all_tours[i].latitude[1], all_tours[i].longitude[1])

WithinMaxDistance(i) ==
    resp.max_distance = None \/ TrueDistance(i) <= 1000 * resp.max_distance[1]

\* the label a row is grouped under: its neighborhood, or the sentinel
LabelOf(i) ==
    IF all_tours[i].neighborhood \in {None, Some("")}
    THEN "Unspecified" ELSE all_tours[i].neighborhood[1]

Returned(i) == \E j \in 1..Len(resp.tours) : resp.tours[j].tour = i

Eligible(i) ==
    \E j \in 1..Len(resp.tours_with_distance) : resp.tours_with_distance[j].tour = i

\* C3: for every neighborhood of the returned page, the returned tours
\* include every candidate tour with that label which has a position and
\* passes the max-distance filter, so a neighborhood is never split across
\* pages.
C3_WholeNeighborhoods ==
    Served =>
        \A i \in 1..Len(all_tours) :
            (/\ Positioned(all_tours[i])
             /\ WithinMaxDistance(i)
             /\ LabelOf(i) \in Range(resp.neighborhoods)) => Returned(i)

\* C4: nearby_tours never returns a tour whose neighborhood label is absent
\* from the neighborhoods list of the same response, for every candidate
\* list, neighborhood_offset and neighborhood_count.
C4_ToursInsideSelectedNeighborhoods ==
    Served =>
        \A j \in 1..Len(resp.tours) :
            /\ resp.tours[j].neighborhood \in Range(resp.neighborhoods)
            /\ LabelOf(resp.tours[j].tour) = resp.tours[j].neighborhood

\* C4 witness: a page that returns some tours and leaves out an eligible
\* tour of a neighborhood outside the page.
C4_Witness ==
    /\ Served
    /\ resp.tours # <<>>
    /\ \E i \in 1..Len(all_tours) : Eligible(i) /\ ~Returned(i)

\* first position of a label in the distance-sorted list
FirstIndex(items, label) ==
    CHOOSE j \in 1..Len(items) :
        /\ items[j].neighborhood = label
        /\ \A m \in 1..(j - 1) : items[m].neighborhood # label

\* C5: the neighborhood ordering lists each distinct label exactly once, in
\* the order of its first appearance in the distance-sorted candidate list:
\* A precedes B exactly when the closest tour of A sorts before the closest
\* tour of B.
C5_NeighborhoodsByFirstAppearance ==
    Served =>
        LET items == resp.tours_with_distance
            ordered == resp.neighborhoods_ordered
        IN  /\ Range(ordered) = {items[j].neighborhood : j \in 1..Len(items)}
            /\ \A a, b \in 1..Len(ordered) :
                   a < b <=> FirstIndex(items, ordered[a]) < FirstIndex(items, ordered[b])

\* C5 witness: three sorted tours whose labels read A, B, A.
C5_Witness ==
    /\ Served
    /\ Len(resp.tours_with_distance) = 3
    /\ resp.tours_with_distance[1].neighborhood = resp.tours_with_distance[3].neighborhood
    /\ resp.tours_with_distance[1].neighborhood # resp.tours_with_distance[2].neighborhood
    /\ Len(resp.neighborhoods_ordered) = 2

\* the labels of the candidates that survive the position and distance tests
SurvivingLabels ==
    {LabelOf(i) : i \in {k \in 1..Len(all_tours) :
                            HasCoordinates(all_tours[k]) /\ WithinMaxDistance(k)}}

\* C6: for a page request within the contract (offset >= 0, pageSize >= 1)
\* the returned neighborhoods are exactly the slice [offset : offset +
\* pageSize] of the ordered neighborhood list, so at most pageSize labels,
\* and totalNeighborhoods is the number of distinct labels among all
\* surviving candidates, whatever offset and pageSize are.
C6_NeighborhoodPage ==
    Served =>
        /\ resp.totalNeighborhoods = Cardinality(SurvivingLabels)
        /\ (resp.neighborhoodOffset >= 0 /\ resp.neighborhood_count >= 1) =>
              /\ Len(resp.neighborhoods) =
                     Max(0, Min(resp.neighborhood_count,
                                resp.totalNeighborhoods - resp.neighborhoodOffset))
              /\ Len(resp.neighborhoods) <= resp.neighborhood_count
              /\ \A i \in 1..Len(resp.neighborhoods) :
                     resp.neighborhoods[i] =
                         resp.neighborhoods_ordered[resp.neighborhoodOffset + i]

\* C6 witness: a second page of one label taken from three neighborhoods.
C6_Witness ==
    /\ Served
    /\ resp.neighborhoodOffset = 1
    /\ resp.neighborhood_count = 1
    /\ resp.totalNeighborhoods = 3
    /\ Len(resp.neighborhoods) = 1

\* C7: for offset >= 0 and pageSize >= 1, hasMore is true exactly when
\* offset + pageSize < totalNeighborhoods; an offset at or beyond the end of
\* the neighborhood list yields empty neighborhoods and tours with hasMore
\* false.
C7_HasMore ==
    (Served /\ resp.neighborhoodOffset >= 0 /\ resp.neighborhood_count >= 1) =>
        /\ resp.hasMore <=>
               (resp.neighborhoodOffset + resp.neighborhood_count
                    < Cardinality(SurvivingLabels))
        /\ resp.neighborhoodOffset >= Cardinality(SurvivingLabels) =>
               /\ resp.neighborhoods = <<>>
               /\ resp.tours = <<>>
               /\ resp.hasMore = FALSE

\* C7 witness: an offset beyond the end of a non-empty neighborhood list.
C7_Witness ==
    /\ Served
    /\ resp.neighborhood_count >= 1
    /\ Cardinality(SurvivingLabels) >= 1
    /\ resp.neighborhoodOffset >= Cardinality(SurvivingLabels)
    /\ resp.hasMore = FALSE

\* C8 as stated: the returned tours are in non-decreasing order of their
\* distance from the origin, and candidates with exactly equal distance
\* keep the relative order of the candidate sequence.
C8_SortedByTrueDistance ==
    Served =>
        \A j, k \in 1..Len(resp.tours) :
            j < k =>
                /\ TrueDistance(resp.tours[j].tour) <= TrueDistance(resp.tours[k].tour)
                /\ TrueDistance(resp.tours[j].tour) = TrueDistance(resp.tours[k].tour)
                       => resp.tours[j].tour < resp.tours[k].tour

\* C8 amended: the returned tours are in non-decreasing order of the
\* distance they are reported with, which is the distance from the origin
\* rounded to 2 decimals, and candidates whose rounded distances are equal
\* keep the relative order of the candidate sequence (stable sort).
C8_SortedByRoundedDistance ==
    Served =>
        /\ \A j \in 1..Len(resp.tours) :
               resp.tours[j].distance = Round2(TrueDistance(resp.tours[j].tour))
        /\ \A j, k \in 1..Len(resp.tours) :
               j < k =>
                   /\ resp.tours[j].distance <= resp.tours[k].distance
                   /\ resp.tours[j].distance = resp.tours[k].distance
                          => resp.tours[j].tour < resp.tours[k].tour

\* C8 witness: two returned tours with the same rounded distance, returned
\* in candidate order although the first of them is the farther one.
C8_Witness ==
    /\ Served
    /\ \E j, k \in 1..Len(resp.tours) :
           /\ j < k
           /\ resp.tours[j].distance = resp.tours[k].distance
           /\ resp.tours[j].tour < resp.tours[k].tour
           /\ TrueDistance(resp.tours[j].tour) > TrueDistance(resp.tours[k].tour)

\* C9: a candidate is excluded on positional grounds exactly when its
\* position is null: a tour with a null latitude or longitude is left out,
\* and a tour with non-null latitude and longitude is given a distance and
\* stays eligible (subject only to the max-distance filter).
C9_ExcludedIffNullPosition ==
    Served =>
        \A i \in 1..Len(all_tours) :
            /\ ~Positioned(all_tours[i]) => ~Eligible(i)
            /\ (Positioned(all_tours[i]) /\ WithinMaxDistance(i)) => Eligible(i)

C12_UnspecifiedSentinel ==
    Served =>
        /\ \A j \in 1..Len(resp.tours) :
               /\ resp.tours[j].neighborhood \in STRING
               /\ all_tours[resp.tours[j].tour].neighborhood = None
                      => resp.tours[j].neighborhood = "Unspecified"
        /\ \A k \in 1..Len(resp.neighborhoods) : resp.neighborhoods[k] \in STRING
        /\ \A j \in 1..Len(resp.tours_with_distance) :
               all_tours[resp.tours_with_distance[j].tour].neighborhood = None
                   => resp.tours_with_distance[j].neighborhood = "Unspecified"
        /\ Cardinality({k \in 1..Len(resp.neighborhoods) :
                            resp.neighborhoods[k] = "Unspecified"}) <= 1

\* C12 witness: two returned tours without a neighborhood, grouped under
\* "Unspecified" next to a tour of a named neighborhood.
C12_Witness ==
    /\ Served
    /\ \E j, k \in 1..Len(resp.tours) :
           /\ j # k
           /\ all_tours[resp.tours[j].tour].neighborhood = None
           /\ all_tours[resp.tours[k].tour].neighborhood = None
           /\ resp.tours[j].neighborhood = "Unspecified"
           /\ resp.tours[k].neighborhood = "Unspecified"
    /\ Len(resp.neighborhoods) = 2

\* ----------------------------------------------------------------------
\* Properties of the stop lists and the stored metrics
\* ----------------------------------------------------------------------

\* the site ids of the rows of a tour
SiteIdsOf(rows) == {rows[i].site_id : i \in 1..Len(rows)}

\* C1: in every state reached through an operation that changed a tour's
\* stop list (update_tour with siteIds, delete_site), the tour's stored
\* distance_meters and duration_minutes equal calculate_tour_metrics of its
\* full current stop list.
C1_StoredMetricsFollowStopList ==
    \A t \in last_request.changed :
        tours[t] = RecalculatedTour(sites, tour_sites[t])

\* C2: when delete_site removes a site, every tour that contained the site
\* no longer has it in its stop list once the request is complete, and its
\* stored distance_meters and duration_minutes equal calculate_tour_metrics
\* over its remaining stops.
C2_DeleteSiteRecalculatesEveryTour ==
    [][\A id \in SiteIds :
          (sites[id] # None /\ sites'[id] = None) =>
              \A t \in TourIds :
                  id \in SiteIdsOf(tour_sites[t]) =>
                      /\ id \notin SiteIdsOf(tour_sites'[t])
                      /\ tours'[t] = RecalculatedTour(sites', tour_sites'[t])]_vars

\* C2 witness: delete_site has removed a site shared by two tours, one of
\* which keeps a stop, and has replaced a stored duration.
C2_Witness ==
    /\ last_request.op = "delete_site"
    /\ Cardinality(last_request.changed) >= 2
    /\ \E t \in last_request.changed :
           /\ tour_sites[t] # <<>>
           /\ tours[t].duration_minutes = Some(1)

\* ----------------------------------------------------------------------
\* Properties of calculate_tour_metrics
\* ----------------------------------------------------------------------

Calculated == calc_result # NoResult

\* the sites of the calculator's argument in ascending display order
StopsInOrder ==
    LET n == Len(calc_tour_sites)
        at(k) == CHOOSE i \in 1..n :
                     Cardinality({j \in 1..n : calc_tour_sites[j].display_order
                                                 < calc_tour_sites[i].display_order}) = k - 1
    IN  [k \in 1..n |-> calc_tour_sites[at(k)].site]

\* both sites of a pair have non-null latitude and longitude
PairHasCoordinates(a, b) ==
    /\ a.latitude # None /\ a.longitude # None
    /\ b.latitude # None /\ b.longitude # None

\* the contribution the claim gives the pair (k, k+1)
PairDistance(stops, k) ==
    IF PairHasCoordinates(stops[k], stops[k + 1])
    THEN haversine_distance(stops[k].latitude[1], stops[k].longitude[1],
                            stops[k + 1].latitude[1], stops[k + 1].longitude[1])
    ELSE 0

RECURSIVE SumPairs(_, _)
SumPairs(stops, k) ==
    IF k >= Len(stops) THEN 0 ELSE PairDistance(stops, k) + SumPairs(stops, k + 1)

\* C10: calculate_tour_metrics sums the distance of every consecutive pair
\* of stops, in display order, in which both sites have non-null latitude
\* and longitude; a pair with a missing coordinate contributes 0 and leaves
\* the other pairs' contributions alone.  The returned distance is that sum
\* times 1.2, rounded.
C10_SumOfPairsWithCoordinates ==
    Calculated => calc_result[1] = RoundAdjusted(SumPairs(StopsInOrder, 1))

\* the rearrangements of a collection of n elements
IndexPermutations(n) ==
    {p \in [1..n -> 1..n] : \A i, j \in 1..n : p[i] = p[j] => i = j}

\* the sites of the calculator's argument in the order it presents them
StopsAsPresented == [i \in 1..Len(calc_tour_sites) |-> calc_tour_sites[i].site]

\* C13: calculate_tour_metrics traverses the stops in ascending
\* display_order whatever order the tour_sites collection presents them in:
\* for distinct order values every permutation of the same tour_sites gives
\* the same (distance, duration), which is the one of the ascending
\* traversal.
C13_PresentationOrderIrrelevant ==
    Calculated =>
        /\ calc_result[1] = RoundAdjusted(TotalDistanceFrom(StopsInOrder, 1))
        /\ \A p \in IndexPermutations(Len(calc_tour_sites)) :
               calculate_tour_metrics([i \in 1..Len(calc_tour_sites) |->
                                          calc_tour_sites[p[i]]]) = calc_result

\* C13 witness: three stops presented out of display order, whose distance
\* summed in the presented order would differ from the one returned.
C13_Witness ==
    /\ Calculated
    /\ Len(calc_tour_sites) = 3
    /\ calc_tour_sites[1].display_order > calc_tour_sites[2].display_order
    /\ RoundAdjusted(TotalDistanceFrom(StopsAsPresented, 1)) # calc_result[1]

\* numerator and denominator of walkingMinutes + narrationMinutes for the
\* raw distance the traversal summed and the words of all stops:
\*   1.2 * raw / 73.15 + words / 130
ExactMinutesNum ==
    120 * 130 * TotalDistanceFrom(StopsInOrder, 1)
        + 7315 * TotalWordsFrom(StopsInOrder, 1)

ExactMinutesDen == 7315 * 130

\* C14: the returned durationMinutes is the least integer that is >=
\* walkingMinutes + narrationMinutes (walkingMinutes = 1.2 x raw distance /
\* 73.15 for the raw distance the traversal summed, narrationMinutes =
\* totalWords / 130): it is never smaller than the exact sum and exceeds it
\* by less than 1.
C14_DurationIsCeiling ==
    Calculated =>
        /\ calc_result[2] * ExactMinutesDen >= ExactMinutesNum
        /\ (calc_result[2] - 1) * ExactMinutesDen < ExactMinutesNum

\* C14 witness: a walk of one grid step with one word of narration, whose
\* exact sum of 29.34 minutes is returned as 30.
C14_Witness ==
    /\ Calculated
    /\ TotalDistanceFrom(StopsInOrder, 1) = 1788
    /\ TotalWordsFrom(StopsInOrder, 1) = 1
    /\ calc_result[2] = 30

\* C16: calculate_tour_metrics returns distance 0 for every tour with no
\* stop or exactly one stop; with no stop the duration is 0 as well, and
\* with one stop the duration is the narration time of its words alone,
\* rounded up.
C16_NoStopOrOneStop ==
    (Calculated /\ Len(calc_tour_sites) <= 1) =>
        /\ calc_result[1] = 0
        /\ Len(calc_tour_sites) = 0 => calc_result[2] = 0
        /\ Len(calc_tour_sites) = 1 =>
               calc_result[2] =
                   (count_words(DescriptionOrEmpty(calc_tour_sites[1].site)) + 129) \div 130

\* C16 witness: a tour of one positioned stop with a description of one
\* word: distance 0, duration 1.
C16_Witness ==
    /\ Calculated
    /\ Len(calc_tour_sites) = 1
    /\ calc_tour_sites[1].site.latitude # None
    /\ calc_tour_sites[1].site.description # None
    /\ calc_result = <<0, 1>>

\* the number of words of a description, counted by the ends of its words
Tokens(description) ==
    IF description = None THEN 0
    ELSE LET text == description[1]
         IN  Cardinality({i \in 1..Len(text) :
                             /\ text[i] \notin Whitespace
                             /\ (i = Len(text) \/ text[i + 1] \in Whitespace)})

\* the words of all stops from stop k on
RECURSIVE SumTokens(_, _)
SumTokens(stops, k) ==
    IF k > Len(stops) THEN 0
    ELSE Tokens(stops[k].description) + SumTokens(stops, k + 1)

\* the calculator's argument with the description of stop i replaced
WithDescription(i, text) ==
    [calc_tour_sites EXCEPT ![i].site.description = text]

\* C15: with the stops' positions and order held fixed, the returned
\* durationMinutes never decreases when the narration word count of any
\* stop increases, and when the total distance is 0 it is at least
\* ceil(totalWords / 130).
C15_DurationMonotoneInWords ==
    Calculated =>
        /\ \A i \in 1..Len(calc_tour_sites), text \in NarrationTexts :
               Tokens(text) >= Tokens(calc_tour_sites[i].site.description) =>
                   calculate_tour_metrics(WithDescription(i, text))[2] >= calc_result[2]
        /\ calc_result[1] = 0 =>
               calc_result[2] * 130 >= SumTokens(StopsInOrder, 1)

\* C15 witness: a walk of one grid step whose narration lifts the duration
\* from 30 to 31 minutes.
C15_Witness ==
    /\ Calculated
    /\ calc_result = <<2146, 31>>
    /\ \E i \in 1..Len(calc_tour_sites) :
           calculate_tour_metrics(WithDescription(i, None))[2] = 30

\* each description is missing or empty
NoNarration ==
    \A i \in 1..Len(calc_tour_sites) :
        calc_tour_sites[i].site.description \in {None, Some(<<>>)}

\* each consecutive pair of stops has a site with a null coordinate
NoPairWithCoordinates ==
    \A k \in 1..(Len(calc_tour_sites) - 1) :
        ~PairHasCoordinates(StopsInOrder[k], StopsInOrder[k + 1])

\* the calculator's argument with '' for every null description
NullDescriptionsEmptied ==
    [i \in 1..Len(calc_tour_sites) |->
        IF calc_tour_sites[i].site.description = None
        THEN [calc_tour_sites[i] EXCEPT !.site.description = Some(<<>>)]
        ELSE calc_tour_sites[i]]

\* C17: calculate_tour_metrics returns a pair (distance, duration) of
\* numbers for every tour, the empty one and those with null or empty
\* descriptions or null coordinates included, and absent data contributes
\* zero: a null description counts like an empty one, a tour without any
\* narration and without a pair of positioned stops gets (0, 0).
C17_AbsentDataContributesZero ==
    Calculated =>
        /\ calc_result \in Nat \X Nat
        /\ calculate_tour_metrics(NullDescriptionsEmptied) = calc_result
        /\ NoPairWithCoordinates => calc_result[1] = 0
        /\ (NoNarration /\ NoPairWithCoordinates) => calc_result = <<0, 0>>

\* C17 witness: two stops, one without latitude and without description,
\* the other with an empty description: the result is (0, 0).
C17_Witness ==
    /\ Calculated
    /\ Len(calc_tour_sites) = 2
    /\ calc_tour_sites[1].site.latitude = None
    /\ calc_tour_sites[1].site.description = None
    /\ calc_tour_sites[2].site.latitude # None
    /\ calc_tour_sites[2].site.description = Some(<<>>)
    /\ calc_result = <<0, 0>>

\* a text of whitespace only (the empty text included)
WhitespaceOnly(text) == \A i \in 1..Len(text) : text[i] \in Whitespace

C19_GridStepWalkTakesThirtyMinutes ==
    (/\ Calculated
     /\ Len(calc_tour_sites) = 2
     /\ PairDistance(StopsInOrder, 1) = 1788
     /\ SumTokens(StopsInOrder, 1) <= 9) =>
        /\ calc_result[1] \in 2000..2300
        /\ calc_result[1] = 2146
        /\ calc_result[2] = 30

\* ----------------------------------------------------------------------
\* Properties of haversine_distance
\* ----------------------------------------------------------------------

HaversineCalled == haversine_call # NoCall

StoredTours == {t \in StatusTourIds : tour_table[t] # None}

\* C21: every stored tour whose status is 'published' has published_at
\* set, whatever sequence of update_tour status changes and
\* bulk_upload_tours requests produced it.
C21_PublishedHasPublishedAt ==
    \A t \in StoredTours :
        tour_table[t][1].status = "published" => tour_table[t][1].published_at # None

TourRead ==
    /\ tour_response # NoTourResponse
    /\ tour_response.op \in {"get_tour", "list_tours", "nearby_tours"}

IsOwner(caller, t) ==
    /\ caller.identity.kind = "user"
    /\ tour_table[t][1].owner_id = caller.identity.id

\* C27: get_tour, list_tours and nearby_tours return a tour only if its
\* status is 'published' or the caller is its owner; get_tour also returns
\* it to an admin.  No other caller, a device-token holder included, is
\* given an unpublished tour.
C27_OnlyPublishedOrOwn ==
    TourRead =>
        \A t \in tour_response.tours :
            /\ t \in StoredTours
            /\ \/ tour_table[t][1].status = "published"
               \/ IsOwner(tour_response.caller, t)
               \/ tour_response.op = "get_tour" /\ tour_response.caller.role = Some("admin")

\* C27 witness: a device-token holder lists the tours while a published
\* tour and an unpublished one are stored, and is given the published one
\* only.
C27_Witness ==
    /\ TourRead
    /\ tour_response.op = "list_tours"
    /\ tour_response.caller.identity = DeviceIdentity
    /\ \E t \in tour_response.tours : tour_table[t][1].status = "published"
    /\ \E u \in StoredTours : u \notin tour_response.tours /\ tour_table[u][1].status = "draft"

\* a step in which update_tour serves a caller who is not an admin
UpdateByNonAdmin ==
    /\ tour_response = NoTourResponse
    /\ tour_response' # NoTourResponse
    /\ tour_response'.op = "update_tour"
    /\ tour_response'.caller.role # Some("admin")

\* the request of that step asks for a status the stored tour does not have
RequestsStatusChange ==
    /\ tour_table[tour_response'.tour_id] # None
    /\ tour_response'.data.status # None
    /\ tour_response'.data.status[1] # tour_table[tour_response'.tour_id][1].status

RequestsDraftToReady ==
    /\ tour_table[tour_response'.tour_id][1].status = "draft"
    /\ tour_response'.data.status = Some("ready")

StatusChangesOnlyDraftToReady ==
    \A t \in StoredTours :
        tour_table'[t][1].status # tour_table[t][1].status =>
            tour_table[t][1].status = "draft" /\ tour_table'[t][1].status = "ready"

ReadyTourUntouched ==
    \A t \in StoredTours :
        tour_table[t][1].status = "ready" => tour_table'[t] = tour_table[t]

C22_RegisteredDeviceNotRevoked ==
    /\ \A d \in device_tokens : is_device_active(d)
    /\ (auth_response # NoAuthResponse /\ auth_response.op = "check_if_token_revoked") =>
           auth_response.code = 200

\* C23: once a user is deactivated, login with the right password is
\* answered 403, refresh 401, and a request with an access token the user
\* got before the deactivation is refused too.
C23_DeactivatedUserRefused ==
    (auth_response # NoAuthResponse /\ auth_response.user \in AuthUserIds
        /\ ~user_is_active[auth_response.user]) =>
        /\ auth_response.op = "login" => auth_response.code \in {401, 403}
        /\ auth_response.op = "refresh" => auth_response.code = 401
        /\ auth_response.op \in {"get_current_user", "flexible_auth_required"} =>
               auth_response.code \in {401, 403}

\* ----------------------------------------------------------------------
\* Properties of generate_audio
\* ----------------------------------------------------------------------

\* the call has returned after it missed the cache and uploaded its audio
MissedAndUploaded(c) ==
    /\ tts_calls[c].pc = "done"
    /\ tts_calls[c].loaded = None
    /\ tts_calls[c].s3_url # None

\* the call won the insert: it returned its own URL, which is the row's
WonInsert(c, row) ==
    /\ tts_calls[c].result = Success(S3Url(c), FALSE)
    /\ row.audio_url = S3Url(c)

\* the call lost the insert: it returned the URL of the row as a cache hit
LostInsert(c, row) ==
    /\ tts_calls[c].result = Success(row.audio_url, TRUE)
    /\ row.audio_url # S3Url(c)

\* C24: when two concurrent generate_audio calls for the same text have
\* both missed the cache, both return 'success', the cache holds exactly
\* one row for the text, and a call that lost the insert returns the URL
\* of the row the winner stored, with from_cache = true.
C24_RaceLeavesOneEntry ==
    \A c1 \in Calls : \A c2 \in Calls \ {c1} :
        (MissedAndUploaded(c1) /\ MissedAndUploaded(c2) /\ tts_calls[c1].text = tts_calls[c2].text) =>
            /\ Cardinality(RowsOf(tts_calls[c1].text)) = 1
            /\ \A row \in RowsOf(tts_calls[c1].text) :
                  /\ WonInsert(c1, row) \/ LostInsert(c1, row)
                  /\ WonInsert(c2, row) \/ LostInsert(c2, row)
                  /\ ~(WonInsert(c1, row) /\ WonInsert(c2, row))

\* C24 witness: two calls missed the cache for the same text; the first
\* stored its row, the second returned the first one's URL as a cache hit.
C24_Witness ==
    /\ MissedAndUploaded(1)
    /\ MissedAndUploaded(2)
    /\ tts_calls[1].text = tts_calls[2].text
    /\ tts_calls[1].result = Success(S3Url(1), FALSE)
    /\ tts_calls[2].result = Success(S3Url(1), TRUE)

\* the calls for the text that found it in the cache when they looked it up
CacheHits(text) ==
    {c \in Calls : /\ tts_calls[c].pc = "done"
                   /\ tts_calls[c].text = text
                   /\ tts_calls[c].loaded # None
                   /\ tts_calls[c].result = Success(tts_calls[c].loaded[1].audio_url, TRUE)}

NoCallRunning == \A c \in Calls : tts_calls[c].pc \in {"idle", "done"}

\* C25: every call served from the cache adds exactly one to the access
\* count of the row: once all calls have returned, the count of a row is
\* the 1 it was created with plus the number of calls served from it,
\* whether they ran one after another or concurrently.
C25_AccessCountGrowsByHits ==
    NoCallRunning =>
        \A text \in TtsTexts : \A row \in RowsOf(text) :
            row.access_count = 1 + Cardinality(CacheHits(text))

\* ----------------------------------------------------------------------
\* Properties of reset_password
\* ----------------------------------------------------------------------

\* the requests that sent the token and were answered 200
SuccessfulResets ==
    {c \in ResetCalls : /\ reset_calls[c].pc = "done"
                        /\ reset_calls[c].token = Some("reset_token_from_email")
                        /\ reset_calls[c].code = 200}

\* C26: a password-reset token changes the password at most once: of the
\* reset_password requests that send it, later or interleaved, at most one
\* is answered 200 and sets the password; all others are answered 400 and
\* leave the password as it is.
C26_TokenUsedAtMostOnce ==
    /\ Cardinality(SuccessfulResets) <= 1
    /\ \A c \in ResetCalls :
          (reset_calls[c].pc = "done" /\ c \notin SuccessfulResets) => reset_calls[c].code = 400

\* ----------------------------------------------------------------------
\* Properties of the ratings
\* ----------------------------------------------------------------------

\* C29: after any sequence of rating submissions and delete_feedback
\* deletions, the rating_count of each tour is the number of rating
\* feedback records stored for it, and its average_rating is their mean
\* rounded to 2 decimals.
C29_AggregatesFollowFeedback ==
    \A t \in RatedTourIds :
        LET ids == RatingFeedbacks(feedback_rows, t)
        IN  /\ rated_tours[t].rating_count = Cardinality(ids)
            /\ ids # {} => rated_tours[t].average_rating =
                              Some(RoundedAverage(SumRatings(feedback_rows, ids), Cardinality(ids)))

\* ----------------------------------------------------------------------
\* Properties of paging through nearby_tours
\* ----------------------------------------------------------------------

PagingDone == pager # IdlePager /\ pager.state = "done"

\* the distance of row i from the origin of the pager's query
PagerDistance(i) ==
    calculate_distance(pager.lat, pager.lon, all_tours[i].latitude[1], all_tours[i].longitude[1])

\* row i has a position and lies within the max distance of the query
PagerExpects(i) ==
    /\ Positioned(all_tours[i])
    /\ pager.max_distance = None \/ PagerDistance(i) <= 1000 * pager.max_distance[1]

\* the label row i is grouped under
PagerLabel(i) ==
    IF all_tours[i].neighborhood \in {None, Some("")}
    THEN "Unspecified" ELSE all_tours[i].neighborhood[1]

\* how often the pages returned row i, and how often they listed a label
TimesReturned(i) == Cardinality({j \in 1..Len(pager.tours) : pager.tours[j] = i})

TimesListed(label) == Cardinality({j \in 1..Len(pager.neighborhoods) : pager.neighborhoods[j] = label})

\* the reported distance of the closest expected tour of a label
ClosestOf(label) ==
    CHOOSE d \in {Round2(PagerDistance(i)) : i \in {k \in 1..Len(all_tours) : PagerExpects(k) /\ PagerLabel(k) = label}} :
        \A i \in {k \in 1..Len(all_tours) : PagerExpects(k) /\ PagerLabel(k) = label} : d <= Round2(PagerDistance(i))

\* C30: with the tours unchanged and a fixed pageSize >= 1, the pages at
\* offsets 0, pageSize, 2 x pageSize, ... up to the first one with hasMore
\* = false return every positioned tour within the max distance exactly
\* once and no other tour, list every neighborhood of those tours exactly
\* once, closest first, and are finitely many.
C30_PagesCoverEveryTourOnce ==
    PagingDone =>
        /\ \A i \in 1..Len(all_tours) : TimesReturned(i) = IF PagerExpects(i) THEN 1 ELSE 0
        /\ \A i \in 1..Len(all_tours) : PagerExpects(i) => TimesListed(PagerLabel(i)) = 1
        /\ \A j \in 1..Len(pager.neighborhoods) :
              /\ \E i \in 1..Len(all_tours) : PagerExpects(i) /\ PagerLabel(i) = pager.neighborhoods[j]
              /\ \A k \in (j + 1)..Len(pager.neighborhoods) :
                    /\ pager.neighborhoods[j] # pager.neighborhoods[k]
                    /\ ClosestOf(pager.neighborhoods[j]) <= ClosestOf(pager.neighborhoods[k])
        /\ pager.pages <= Len(all_tours) + 1


====
